---- MODULE Spec2Model ----
(***************************************************************************)
(* A model of s3_uploader.py: the classifier determine_prefix, the         *)
(* destination-key construction, the directory walk of main, the upload    *)
(* dispatcher of main (dry run, sequential, thread pool) and the process   *)
(* exit status of the script.                                              *)
(*                                                                         *)
(* Strings are sequences of one-character strings, so that suffix          *)
(* extraction, lowercasing and stripping are computed and not assumed.     *)
(* A path is a sequence of names, relative to the scan root.               *)
(***************************************************************************)
EXTENDS Integers, Sequences, FiniteSets, TLC

VARIABLES
    pc,               \* position of the script / of main
    exit_status,      \* process exit status, -1 while the process runs
    base_exists,      \* base.exists()
    fs,               \* the tree under the scan root: the set of paths in it
    env_is_dir,       \* whether the root entry named "env" is a directory
    map_arg,          \* --map: "absent", "readable" or "unreadable"
    map_file,         \* the object the JSON file of --map holds
    mapping,          \* the mapping argument of main (set of key/value pairs)
    dry_run, recursive, workers,
    yielded,          \* the paths the iterator of line 59 has produced, in order
    candidates,       \* the yielded paths that pass the skip tests of lines 63-66
    p,                \* the loop variable of line 61
    prefix,           \* the local prefix of line 71
    files_to_upload,  \* the list of line 56
    calls,            \* the invocations of client.upload_file, in order
    dry_log,          \* the "[dry-run] would upload" lines, in order
    fut,              \* per task index: state of its upload / of its future
    collected         \* the futures as_completed has handed to line 99

vars == <<pc, exit_status, base_exists, fs, env_is_dir, map_arg, map_file, mapping,
          dry_run, recursive, workers, yielded, candidates, p, prefix,
          files_to_upload, calls, dry_log, fut, collected>>

----------------------------------------------------------------------------
(* Bounds.                                                                 *)

MaxEntries == 4    \* entries in the scanned tree
MaxTasks == 3      \* queued tasks handed to the dispatcher
MaxWorkers == 3    \* largest --workers value

----------------------------------------------------------------------------
(* Strings.                                                                *)

UpperCase == <<"A","B","C","D","E","F","G","H","I","J","K","L","M",
               "N","O","P","Q","R","S","T","U","V","W","X","Y","Z">>
LowerCase == <<"a","b","c","d","e","f","g","h","i","j","k","l","m",
               "n","o","p","q","r","s","t","u","v","w","x","y","z">>

\* str.lower() on one character
LowerChar(c) ==
    IF \E i \in 1..Len(UpperCase) : UpperCase[i] = c
    THEN LowerCase[CHOOSE i \in 1..Len(UpperCase) : UpperCase[i] = c]
    ELSE c

\* a lower() that leaves the string as it is
LowerKeepsCase(s) == s

\* str.lower()
Lower(s) == [i \in 1..Len(s) |-> LowerChar(s[i])]

\* str.rfind(c), 1-based; 0 when c does not occur
RFind(s, c) ==
    IF \E i \in 1..Len(s) : s[i] = c
    THEN CHOOSE i \in 1..Len(s) : s[i] = c /\ \A j \in (i+1)..Len(s) : s[j] # c
    ELSE 0

\* str.rstrip(c)
RECURSIVE RStrip(_, _)
RStrip(s, c) ==
    IF s # <<>> /\ s[Len(s)] = c THEN RStrip(SubSeq(s, 1, Len(s) - 1), c) ELSE s

\* str.lstrip(c)
RECURSIVE LStrip(_, _)
LStrip(s, c) ==
    IF s # <<>> /\ s[1] = c THEN LStrip(Tail(s), c) ELSE s

\* PurePath.name: the last component
Name(path) == path[Len(path)]

\* PurePath.suffix: from the last dot of the name, unless that dot is the
\* first or the last character of the name
Suffix(path) ==
    LET name == Name(path)
        i == RFind(name, ".")
    IN  IF i > 1 /\ i < Len(name) THEN SubSeq(name, i, Len(name)) ELSE <<>>

\* PurePath.as_posix(): the components joined by "/"
RECURSIVE AsPosix(_)
AsPosix(path) ==
    IF Len(path) = 1 THEN path[1]
    ELSE AsPosix(SubSeq(path, 1, Len(path) - 1)) \o <<"/">> \o path[Len(path)]

----------------------------------------------------------------------------
(* The classifier.                                                         *)

\* Optional[str]
None == [some |-> FALSE, val |-> <<>>]
Some(s) == [some |-> TRUE, val |-> s]
\* Python truthiness of an Optional[str]
Truthy(o) == o.some /\ o.val # <<>>

python == <<"p","y","t","h","o","n">>
pictures == <<"p","i","c","t","u","r","e","s">>
dot_py == <<".","p","y">>
dot_jpg == <<".","j","p","g">>
dot_jpeg == <<".","j","p","e","g">>
dot_png == <<".","p","n","g">>

\* a dict as a set of [k, v] pairs with distinct keys; None and {} are both
\* the empty set: line 115 treats them alike
NoMapping == {}
HasKey(m, key) == \E e \in m : e.k = key
Get(m, key) == (CHOOSE e \in m : e.k = key).v

\* the built-in defaults of lines 124-129
Defaults(suffix) ==
    IF suffix \in {dot_py} THEN Some(python)
    ELSE IF suffix \in {dot_jpg, dot_jpeg, dot_png} THEN Some(pictures)
    ELSE None

\* a determine_prefix that consults the built-in defaults before the mapping
determine_prefix_defaults_first(file_path, m) ==
    LET suffix == Lower(Suffix(file_path))
        key == Lower(suffix)
        key_nodot == LStrip(key, ".")
    IN  IF Defaults(suffix).some THEN Defaults(suffix)
        ELSE IF m # {} /\ HasKey(m, key) THEN Some(Get(m, key))
        ELSE IF m # {} /\ HasKey(m, key_nodot) THEN Some(Get(m, key_nodot))
        ELSE None

determine_prefix(file_path, m) ==
    LET suffix == Lower(Suffix(file_path))
        key == Lower(suffix)
        key_nodot == LStrip(key, ".")
    IN  IF m # {} /\ HasKey(m, key) THEN Some(Get(m, key))
        ELSE IF m # {} /\ HasKey(m, key_nodot) THEN Some(Get(m, key_nodot))
        ELSE Defaults(suffix)

\* line 83: f"{prefix.rstrip('/')}/{rel.as_posix()}"
DestKey(pre, rel) == RStrip(pre, "/") \o <<"/">> \o AsPosix(rel)

----------------------------------------------------------------------------
(* Names, paths and mappings the model draws its inputs from.              *)

n_a_py == <<"a",".","p","y">>
n_A_PY == <<"A",".","P","Y">>
n_p_jpg == <<"p",".","j","p","g">>
n_p_JPEG == <<"p",".","J","P","E","G">>
n_i_png == <<"i",".","p","n","g">>
n_b_PNG == <<"b",".","P","N","G">>
n_n_txt == <<"n",".","t","x","t">>
n_a_tar_gz == <<"a",".","t","a","r",".","g","z">>
n_README == <<"R","E","A","D","M","E">>
n_dotpy == <<".","p","y">>
n_lib_py == <<"l","i","b",".","p","y">>
n_c_py == <<"c",".","p","y">>
n_sub == <<"s","u","b">>
n_env == <<"e","n","v">>
n_pycache == <<"_","_","p","y","c","a","c","h","e","_","_">>
n_sock == <<"s","o","c","k">>

\* line 53: Path(__file__).name
my_name == <<"s","3","_","u","p","l","o","a","d","e","r",".","p","y">>

\* line 52
exclude_dirs == {n_env, n_pycache}

KV(key, value) == [k |-> key, v |-> value]

Mappings ==
    { NoMapping,
      {KV(<<".","p","y">>, <<"c","o","d","e">>)},
      {KV(<<"p","y">>, <<"c","o","d","e">>)},
      {KV(<<".","p","y">>, <<"d","o","t">>), KV(<<"p","y">>, <<"n","o","d","o","t">>)},
      {KV(<<".","g","z">>, <<"a","r","c">>)},
      {KV(<<"t","x","t">>, <<"d","o","c","s","/">>)},
      {KV(<<".","p","y">>, <<"/">>)},
      {KV(<<"j","p","g">>, <<"/","a","b","s">>)},
      {KV(<<".","p","y">>, <<>>)},
      {KV(<<".","P","Y">>, <<"u","p">>)},
      {KV(<<>>, <<"n","o","e","x","t">>)} }

\* regular files handed to the body of the loop (lines 67-84)
FilePaths ==
    { <<n_a_py>>, <<n_A_PY>>, <<n_p_jpg>>, <<n_p_JPEG>>, <<n_i_png>>,
      <<n_n_txt>>, <<n_a_tar_gz>>, <<n_README>>, <<n_dotpy>>, <<my_name>>,
      <<n_sub, n_b_PNG>>, <<n_sub, n_pycache, n_c_py>> }

\* the entries a scanned tree is made of
TreePaths ==
    { <<n_a_py>>, <<my_name>>, <<n_n_txt>>, <<n_sock>>,
      <<n_env>>, <<n_env, n_lib_py>>,
      <<n_sub>>, <<n_sub, n_b_PNG>>,
      <<n_sub, n_pycache>>, <<n_sub, n_pycache, n_c_py>> }

Parent(path) == SubSeq(path, 1, Len(path) - 1)

Trees ==
    { t \in SUBSET TreePaths :
        /\ Cardinality(t) <= MaxEntries
        /\ \A q \in t : Len(q) > 1 => Parent(q) \in t }

\* Path.is_dir()
is_dir(q) ==
    \/ Name(q) \in {n_sub, n_pycache}
    \/ Name(q) = n_env /\ env_is_dir

\* Path.is_file(): a regular file; the entry "sock" is neither
is_file(q) == ~is_dir(q) /\ Name(q) # n_sock

\* a path below a directory whose name is in exclude_dirs
UnderExcluded(q) == \E i \in 1..(Len(q) - 1) : q[i] \in exclude_dirs

----------------------------------------------------------------------------
(* The body of the loop of main after the skip tests (lines 67-84), on a   *)
(* regular file p.                                                         *)

Task(path, key) == [p |-> path, dest |-> key]

Idle ==
    /\ exit_status = -1 /\ base_exists = TRUE /\ fs = {} /\ env_is_dir = TRUE
    /\ map_arg = "absent" /\ map_file = NoMapping
    /\ dry_run = FALSE /\ recursive = FALSE /\ workers = 1
    /\ yielded = <<>> /\ candidates = <<>>
    /\ calls = <<>> /\ dry_log = <<>> /\ fut = <<>> /\ collected = {}

InitClassify ==
    /\ Idle
    /\ pc = "line67"
    /\ p \in FilePaths
    /\ mapping \in Mappings
    /\ prefix = None
    /\ files_to_upload = <<>>

UnchangedProgram ==
    UNCHANGED <<exit_status, base_exists, fs, env_is_dir, map_arg, map_file, mapping,
                dry_run, recursive, workers, yielded, candidates, p,
                calls, dry_log, fut, collected>>

\* lines 67-69
SkipSelf ==
    /\ pc = "line67"
    /\ Name(p) = my_name
    /\ pc' = "skipped"
    /\ UNCHANGED <<prefix, files_to_upload>>
    /\ UnchangedProgram

\* line 71
Classify ==
    /\ pc = "line67"
    /\ Name(p) # my_name
    /\ prefix' = determine_prefix(p, mapping)
    /\ pc' = "line72"
    /\ UNCHANGED files_to_upload
    /\ UnchangedProgram

\* lines 72-74
SkipUnsupported ==
    /\ pc = "line72"
    /\ ~Truthy(prefix)
    /\ pc' = "skipped"
    /\ UNCHANGED <<prefix, files_to_upload>>
    /\ UnchangedProgram

\* lines 76-84; p is below base, so relative_to(base) does not raise
Queue ==
    /\ pc = "line72"
    /\ Truthy(prefix)
    /\ files_to_upload' = Append(files_to_upload, Task(p, DestKey(prefix.val, p)))
    /\ pc' = "queued"
    /\ UNCHANGED prefix
    /\ UnchangedProgram

NextClassify == SkipSelf \/ Classify \/ SkipUnsupported \/ Queue

SpecClassify == InitClassify /\ [][NextClassify]_vars

----------------------------------------------------------------------------
(* The upload dispatcher of main (lines 86-103) and upload_file.           *)

K == Len(files_to_upload)
Final == {"ok", "failed", "raised"}
Running == {i \in 1..K : fut[i] = "running"}
Pending == {i \in 1..K : fut[i] = "pending"}
FirstPending == CHOOSE i \in Pending : \A j \in Pending : i <= j

\* what one call of client.upload_file inside upload_file can end in:
\*   "ok"      it returns (line 38)
\*   "failed"  it raises BotoCoreError or ClientError, caught at line 39
\*   "raised"  it raises anything else (boto3's S3UploadFailedError, OSError),
\*             which line 39 does not catch and upload_file lets through
UploadOutcomes == {"ok", "failed", "raised"}

UnchangedInputs ==
    UNCHANGED <<base_exists, fs, env_is_dir, map_arg, map_file, mapping,
                dry_run, recursive, workers, yielded, candidates, p, prefix,
                files_to_upload>>

\* a dispatcher that does not look at dry_run
DryRunIgnored == FALSE

\* line 87
DryRunTaken == dry_run

\* lines 87-90
DryRun ==
    /\ pc = "dispatch"
    /\ DryRunTaken
    /\ dry_log' = files_to_upload
    /\ pc' = "returned"
    /\ UNCHANGED <<exit_status, calls, fut, collected>>
    /\ UnchangedInputs

\* lines 92-93: the sequential branch is entered
EnterSeq ==
    /\ pc = "dispatch"
    /\ ~DryRunTaken
    /\ workers <= 1
    /\ fut' = [i \in 1..K |-> "pending"]
    /\ pc' = "seq"
    /\ UNCHANGED <<exit_status, calls, dry_log, collected>>
    /\ UnchangedInputs

\* a loop that walks the list from its end
SeqNextTaskFromEnd == CHOOSE i \in Pending : \A j \in Pending : i >= j

\* line 93: the task the for loop takes next
SeqNextTask == FirstPending

\* lines 93-94, 31-37: the loop takes the next task and upload_file calls the client
SeqInvoke ==
    /\ pc = "seq"
    /\ Running = {}
    /\ Pending # {}
    /\ LET i == SeqNextTask
       IN  /\ calls' = Append(calls, files_to_upload[i])
           /\ fut' = [fut EXCEPT ![i] = "running"]
    /\ UNCHANGED <<pc, exit_status, dry_log, collected>>
    /\ UnchangedInputs

\* lines 36-40, 94: the client call ends; an exception line 39 does not
\* catch leaves upload_file, the loop and main
SeqReturn ==
    /\ pc = "seq"
    /\ \E i \in Running, o \in UploadOutcomes :
         /\ fut' = [fut EXCEPT ![i] = o]
         /\ pc' = IF o = "raised" THEN "raised" ELSE "seq"
    /\ UNCHANGED <<exit_status, calls, dry_log, collected>>
    /\ UnchangedInputs

\* line 93: the list is exhausted
SeqDone ==
    /\ pc = "seq"
    /\ Running = {}
    /\ Pending = {}
    /\ pc' = "returned"
    /\ UNCHANGED <<exit_status, calls, dry_log, fut, collected>>
    /\ UnchangedInputs

\* lines 96-97: the pool is created and every task is submitted
PoolSubmit ==
    /\ pc = "dispatch"
    /\ ~DryRunTaken
    /\ workers > 1
    /\ fut' = [i \in 1..K |-> "pending"]
    /\ pc' = "pool"
    /\ UNCHANGED <<exit_status, calls, dry_log, collected>>
    /\ UnchangedInputs

\* ThreadPoolExecutor(max_workers=workers): a free worker takes the oldest
\* submitted task and upload_file calls the client (lines 31-37)
WorkerStart ==
    /\ pc = "pool"
    /\ Cardinality(Running) < workers
    /\ Pending # {}
    /\ LET i == FirstPending
       IN  /\ calls' = Append(calls, files_to_upload[i])
           /\ fut' = [fut EXCEPT ![i] = "running"]
    /\ UNCHANGED <<pc, exit_status, dry_log, collected>>
    /\ UnchangedInputs

\* lines 36-40 in a worker: an exception that leaves upload_file is stored
\* in the task's future
WorkerFinish ==
    /\ pc = "pool"
    /\ \E i \in Running, o \in UploadOutcomes :
         fut' = [fut EXCEPT ![i] = o]
    /\ UNCHANGED <<pc, exit_status, calls, dry_log, collected>>
    /\ UnchangedInputs

\* lines 98-103: as_completed hands over a finished future; fut.result()
\* re-raises a stored exception, which line 102 catches and logs
Collect ==
    /\ pc = "pool"
    /\ \E i \in 1..K :
         /\ fut[i] \in Final
         /\ i \notin collected
         /\ collected' = collected \cup {i}
    /\ UNCHANGED <<pc, exit_status, calls, dry_log, fut>>
    /\ UnchangedInputs

\* line 98 and the exit of the with block of line 96: the loop ends when
\* as_completed has yielded every future, and shutdown(wait=True) joins the
\* workers
\* a dispatcher that returns without waiting for the futures
PoolExitsAtOnce == TRUE

PoolMayExit == collected = 1..K /\ \A i \in 1..K : fut[i] \in Final

PoolExit ==
    /\ pc = "pool"
    /\ PoolMayExit
    /\ pc' = "returned"
    /\ UNCHANGED <<exit_status, calls, dry_log, fut, collected>>
    /\ UnchangedInputs

\* line 153 and the end of the script: main returned, the interpreter exits 0
ProcessExit ==
    /\ pc = "returned"
    /\ exit_status' = 0
    /\ pc' = "exited"
    /\ UNCHANGED <<calls, dry_log, fut, collected>>
    /\ UnchangedInputs

\* line 153: an exception left main; the interpreter prints it and exits 1
UncaughtExit ==
    /\ pc = "raised"
    /\ exit_status' = 1
    /\ pc' = "exited"
    /\ UNCHANGED <<calls, dry_log, fut, collected>>
    /\ UnchangedInputs

\* task lists handed to the dispatcher: distinct files with the keys the
\* body of the loop gives them under the built-in defaults
QueueFiles == { <<n_a_py>>, <<n_p_jpg>>, <<n_sub, n_b_PNG>>, <<n_A_PY>> }
QueuedTask(q) == Task(q, DestKey(determine_prefix(q, NoMapping).val, q))
TaskLists ==
    UNION { { [i \in 1..n |-> QueuedTask(s[i])] :
                s \in { t \in [1..n -> QueueFiles] :
                          \A i, j \in 1..n : i # j => t[i] # t[j] } } :
            n \in 0..MaxTasks }

InitDispatch ==
    /\ pc = "dispatch"
    /\ exit_status = -1 /\ base_exists = TRUE /\ fs = {} /\ env_is_dir = TRUE
    /\ map_arg = "absent" /\ map_file = NoMapping /\ mapping = NoMapping
    /\ recursive = FALSE /\ yielded = <<>> /\ candidates = <<>>
    /\ p = <<>> /\ prefix = None
    /\ files_to_upload \in TaskLists
    /\ dry_run \in BOOLEAN
    /\ workers \in 0..MaxWorkers
    /\ calls = <<>> /\ dry_log = <<>> /\ fut = <<>> /\ collected = {}

NextDispatch ==
    \/ DryRun
    \/ EnterSeq \/ SeqInvoke \/ SeqReturn \/ SeqDone
    \/ PoolSubmit \/ WorkerStart \/ WorkerFinish \/ Collect \/ PoolExit
    \/ ProcessExit \/ UncaughtExit

SpecDispatch == InitDispatch /\ [][NextDispatch]_vars

----------------------------------------------------------------------------
(* The script: __main__ (lines 132-153) and main (lines 43-103).           *)

\* the mapping file of the runs modelled, when --map names a readable one
MapFiles == { {KV(<<"t","x","t">>, <<"d","o","c","s">>)} }

Init ==
    /\ pc = "start"
    /\ exit_status = -1
    /\ base_exists \in BOOLEAN
    /\ fs \in Trees
    /\ env_is_dir \in BOOLEAN
    /\ (<<n_env, n_lib_py>> \in fs \/ <<n_env>> \notin fs) => env_is_dir
    /\ map_arg \in {"absent", "readable", "unreadable"}
    /\ map_file \in MapFiles
    /\ mapping = NoMapping
    /\ dry_run \in BOOLEAN
    /\ recursive \in BOOLEAN
    /\ workers \in 1..2
    /\ yielded = <<>> /\ candidates = <<>>
    /\ p = <<>> /\ prefix = None
    /\ files_to_upload = <<>>
    /\ calls = <<>> /\ dry_log = <<>> /\ fut = <<>> /\ collected = {}

UnchangedRun ==
    UNCHANGED <<base_exists, fs, env_is_dir, map_arg, map_file,
                dry_run, recursive, workers, calls, dry_log, fut, collected>>

\* lines 145-151: the mapping file cannot be read or parsed
LoadMappingFails ==
    /\ pc = "start"
    /\ map_arg = "unreadable"
    /\ exit_status' = 1
    /\ pc' = "exited"
    /\ UNCHANGED <<mapping, yielded, candidates, p, prefix, files_to_upload>>
    /\ UnchangedRun

\* lines 144-148, 153: the mapping is None or the loaded object; main is called
CallMain ==
    /\ pc = "start"
    /\ map_arg # "unreadable"
    /\ mapping' = IF map_arg = "readable" THEN map_file ELSE NoMapping
    /\ pc' = "main"
    /\ UNCHANGED <<exit_status, yielded, candidates, p, prefix, files_to_upload>>
    /\ UnchangedRun

\* lines 48-50: main logs the error and returns
RootMissing ==
    /\ pc = "main"
    /\ ~base_exists
    /\ pc' = "returned"
    /\ UNCHANGED <<exit_status, mapping, yielded, candidates, p, prefix, files_to_upload>>
    /\ UnchangedRun

\* lines 52-59
StartWalk ==
    /\ pc = "main"
    /\ base_exists
    /\ pc' = "walk"
    /\ UNCHANGED <<exit_status, mapping, yielded, candidates, p, prefix, files_to_upload>>
    /\ UnchangedRun

\* line 59: what the iterator enumerates: base.rglob('*') every entry of the
\* tree, base.iterdir() the entries directly in base
Enumerated == IF recursive THEN fs ELSE {q \in fs : Len(q) = 1}

Seen == {yielded[i] : i \in 1..Len(yielded)}

\* the entries the iterator may produce next: a directory's entries come in
\* no particular order, and after the directory itself
MayYield == {q \in Enumerated \ Seen : Len(q) = 1 \/ Parent(q) \in Seen}

\* lines 63-66: whether an entry passes both skip tests
Accepted(q) == ~(Name(q) \in exclude_dirs /\ is_dir(q)) /\ ~(~is_file(q))

\* lines 61-84, one pass of the loop body on entry q: an entry that fails a
\* skip test continues at line 64 or 66; lines 67-84 are part of the block
\* of the if of line 65 and follow its continue, so no pass reaches them and
\* the list stays as it is
LoopBody(q, list) ==
    IF Name(q) \in exclude_dirs /\ is_dir(q) THEN list    \* continue, line 64
    ELSE IF ~is_file(q) THEN list                        \* continue, line 66
    ELSE list                                            \* end of the body

WalkStep ==
    /\ pc = "walk"
    /\ \E q \in MayYield :
         /\ p' = q
         /\ yielded' = Append(yielded, q)
         /\ candidates' = IF Accepted(q) THEN Append(candidates, q) ELSE candidates
         /\ files_to_upload' = LoopBody(q, files_to_upload)
    /\ UNCHANGED <<pc, exit_status, mapping, prefix>>
    /\ UnchangedRun

\* line 61: the iterator is exhausted
WalkDone ==
    /\ pc = "walk"
    /\ MayYield = {}
    /\ pc' = "dispatch"
    /\ UNCHANGED <<exit_status, mapping, yielded, candidates, p, prefix, files_to_upload>>
    /\ UnchangedRun

\* SeqInvoke, SeqReturn, WorkerStart, WorkerFinish, Collect and UncaughtExit
\* need a task in files_to_upload; the walk leaves the list empty
\* (WalkLeavesQueueEmpty), so they are never enabled in a run of the script
Next ==
    \/ LoadMappingFails \/ CallMain
    \/ RootMissing \/ StartWalk \/ WalkStep \/ WalkDone
    \/ DryRun
    \/ EnterSeq \/ SeqDone
    \/ PoolSubmit \/ PoolExit
    \/ ProcessExit

Spec == Init /\ [][Next]_vars

\* the script with every action of the dispatcher
NextAll == Next \/ NextDispatch
SpecAll == Init /\ [][NextAll]_vars
WalkLeavesQueueEmpty == files_to_upload = <<>> /\ calls = <<>>

----------------------------------------------------------------------------
(* Properties.                                                             *)

Count(seq, q) == Cardinality({i \in 1..Len(seq) : seq[i].p = q})
Returned == pc \in {"returned", "exited"}

\* C1: in a run that is not a dry run over an existing root, flat or
\* recursive, every regular file the walk enumerates that is not the
\* program's own file and whose extension classifies to a prefix is queued
\* once and the client's upload is invoked for it exactly once.
C1_EveryAcceptedFileUploaded ==
    (pc = "exited" /\ exit_status = 0 /\ base_exists /\ ~dry_run) =>
        \A q \in Enumerated :
            ( /\ is_file(q)
              /\ ~UnderExcluded(q)
              /\ Name(q) # my_name
              /\ Truthy(determine_prefix(q, mapping)) )
            => (Count(files_to_upload, q) = 1 /\ Count(calls, q) = 1)

\* C2: with workers > 1, when the dispatcher has returned every queued task
\* has been attempted exactly once, has reached a final outcome and has been
\* collected, whatever the other tasks ended in; no exception leaves main.
C2_PoolCompletesEveryTask ==
    (~dry_run /\ workers > 1) =>
        /\ pc # "raised"
        /\ Returned =>
             /\ Len(calls) = K
             /\ \A i \in 1..K :
                  /\ Count(calls, files_to_upload[i].p) = 1
                  /\ fut[i] \in Final
                  /\ i \in collected
        /\ pc = "exited" => exit_status = 0

C2_Witness ==
    /\ pc = "returned" /\ ~dry_run /\ workers = 2 /\ K = 3
    /\ fut = <<"raised", "ok", "failed">>

C4_DryRunInvokesNothing ==
    dry_run =>
        /\ calls = <<>>
        /\ pc \in {"dispatch", "returned", "exited"}
        /\ Returned => dry_log = files_to_upload

C4_Witness ==
    /\ pc = "exited" /\ dry_run /\ workers > 1 /\ K = 3
    /\ dry_log = files_to_upload /\ calls = <<>>

\* C5: in a recursive walk no file below a directory named in the exclusion
\* set appears among the candidates or in the upload list.
C5_NothingBelowExcluded ==
    recursive =>
        /\ \A i \in 1..Len(candidates) : ~UnderExcluded(candidates[i])
        /\ \A i \in 1..Len(files_to_upload) : ~UnderExcluded(files_to_upload[i].p)

\* C6: when the scan root does not exist the run makes no upload attempt and
\* the process ends with a non-zero exit status.
C6_MissingRootExitsNonZero ==
    (pc = "exited" /\ ~base_exists) => (calls = <<>> /\ exit_status # 0)

\* C7: in sequential mode the client is invoked for the tasks in the order
\* of the list, and a task starts only when every earlier one has finished.
C7_SequentialOrder ==
    (~dry_run /\ workers <= 1) =>
        /\ Len(calls) <= K
        /\ calls = SubSeq(files_to_upload, 1, Len(calls))
        /\ \A i, j \in DOMAIN fut :
             (i < j /\ fut[j] # "pending") => fut[i] \in Final

C7_Witness ==
    /\ pc = "returned" /\ ~dry_run /\ workers = 1 /\ K = 3
    /\ fut = <<"ok", "failed", "ok">>
    /\ calls = files_to_upload

\* what C8 expects of each name, written out
ExpectedDefault(name) ==
    CASE name \in {n_a_py, n_A_PY, n_c_py, n_lib_py} -> Some(python)
      [] name \in {n_p_jpg, n_p_JPEG, n_i_png, n_b_PNG} -> Some(pictures)
      [] name \in {n_n_txt, n_a_tar_gz, n_README, n_dotpy} -> None

\* C8: with no mapping, determine_prefix gives "python" for .py and
\* "pictures" for .jpg/.jpeg/.png in any letter case, and None for every
\* other name, multi-dot names and names without an extension included.
C8_DefaultsByFinalSuffix ==
    (pc = "line72" /\ mapping = NoMapping) => prefix = ExpectedDefault(Name(p))

C8_Witness ==
    /\ pc = "line72" /\ mapping = NoMapping
    /\ p = <<n_p_JPEG>> /\ prefix = Some(pictures)

BuiltIn == {dot_py, dot_jpg, dot_jpeg, dot_png}

\* C9: for a file whose extension is in the built-in defaults, a mapping
\* that has the extension with the leading dot decides the prefix; else a
\* mapping that has it without the dot decides it; the built-in prefix is
\* returned only when the mapping has neither.
C9_MappingWins ==
    pc = "line72" =>
        \A s \in BuiltIn :
            Lower(Suffix(p)) = s =>
                /\ HasKey(mapping, s) => prefix = Some(Get(mapping, s))
                /\ (~HasKey(mapping, s) /\ HasKey(mapping, Tail(s)))
                     => prefix = Some(Get(mapping, Tail(s)))

C9_Witness ==
    /\ pc = "line72" /\ p = <<n_A_PY>>
    /\ HasKey(mapping, dot_py) /\ HasKey(mapping, Tail(dot_py))
    /\ prefix = Some(<<"d","o","t">>)

====
